---------------------------- MODULE Spec2Model ----------------------------
(***************************************************************************)
(* NexTicket API gateway: routing, conditional authentication, proxy       *)
(* dispatch and health aggregation, as implemented by                      *)
(*   src/config/proxy.js, src/config/firebase.js, src/middleware/auth.js,  *)
(*   src/routes/index.js, src/routes/serviceRoutes.js,                     *)
(*   src/routes/healthRoutes.js, src/controllers/*.js and src/server.js.   *)
(*                                                                         *)
(* Representation.                                                         *)
(*   - A URL path is the sequence of its '/'-separated segments:           *)
(*     "/a/b" is <<"a","b">>, "/a/b/" is <<"a","b","">>, "/" is <<>>.      *)
(*   - A header value is a sequence of strings.  The Authorization header  *)
(*     is kept as the sequence of its ' '-separated parts, so that         *)
(*     "Bearer t" is <<"Bearer","t">>; an absent header is <<>> (split     *)
(*     never returns an empty array).  Other header values are the pieces  *)
(*     that the code concatenates.                                         *)
(*   - A JSON body is a record; a field the code does not write is not in  *)
(*     the record's domain.                                                *)
(*   - src/routes/serviceRoutes.js holds two revisions of the route table  *)
(*     (lines 1-63 and lines 64-165); rev selects the one that is loaded.  *)
(***************************************************************************)
EXTENDS Integers, Sequences, FiniteSets, TLC

VARIABLES
    phase,          \* "boot" | "listening" | "crashed"
    rev,            \* "R1" (serviceRoutes.js:1-63) | "R2" (serviceRoutes.js:64-165)
    services,       \* names registered in ProxyConfig.services
    fbInitialized,  \* firebaseConfig.initialized
    req,            \* slot -> the request being handled in that slot
    hc              \* the GET /health/services handler's state

vars == <<phase, rev, services, fbInitialized, req, hc>>

-----------------------------------------------------------------------------
(* Static configuration: ProxyConfig.services                              *)

\* The four entries of the constructor.
SrcServices == {"notification", "event", "ticket", "public"}

\* Services that the route tables and the API info refer to, whose registry
\* entries are in no revision of config/proxy.js under src/.
ExtraServices == {"user", "event_public", "ticket_public"}

AllServices == SrcServices \cup ExtraServices

\* The registries the gateway may be started with.
Registries == {SrcServices, AllServices}

\* pathRewrite: the key '^/<prefix>' of each entry of the constructor, as
\* path segments.
SrcRewritePrefix(s) ==
    CASE s = "notification" -> <<"notifi_service">>
      [] s = "event"        -> <<"event_service">>
      [] s = "ticket"       -> <<"ticket_service">>
      [] OTHER              -> <<"public">>

\* target: the default of each entry of the constructor (the environment
\* may override it).
SrcTarget(s) ==
    CASE s = "notification" -> "http://localhost:5001"
      [] s = "event"        -> "http://localhost:4000"
      [] s = "ticket"       -> "http://localhost:8000"
      [] OTHER              -> "http://localhost:5003"

\* The entries of the other services: each strips the mount path of its
\* route; the public sub-routes go to the event and ticket backends.
ExtraRewritePrefix(s) ==
    CASE s = "user"         -> <<"user_service">>
      [] s = "event_public" -> <<"event_service", "public">>
      [] OTHER              -> <<"ticket_service", "public">>

ExtraTarget(s) ==
    CASE s = "user"         -> "USER_SERVICE_URL"
      [] s = "event_public" -> SrcTarget("event")
      [] OTHER              -> SrcTarget("ticket")

\* this.services[serviceName].pathRewrite and .target
RewritePrefix(s) ==
    IF s \in SrcServices THEN SrcRewritePrefix(s) ELSE ExtraRewritePrefix(s)

Target(s) == IF s \in SrcServices THEN SrcTarget(s) ELSE ExtraTarget(s)

-----------------------------------------------------------------------------
(* Sequences                                                               *)

StartsWith(p, pre) ==
    /\ Len(p) >= Len(pre)
    /\ SubSeq(p, 1, Len(pre)) = pre

DropFirst(p, n) == SubSeq(p, n + 1, Len(p))


-----------------------------------------------------------------------------
(* Identity provider: firebase-admin behind FirebaseConfig.verifyIdToken    *)

\* Bearer tokens presented by clients.
ValidTokens == {"tokAdminStaff", "tokOrganizer", "tokPlain"}

RejectedTokens == {"tokExpired"}

Tokens == ValidTokens \cup RejectedTokens

\* The decoded claims admin.auth().verifyIdToken resolves with.  A claim the
\* token does not carry is not in the record's domain.
DecodedClaims(token) ==
    CASE token = "tokAdminStaff" ->
            [uid |-> "u1", email |-> "admin@nexticket", roles |-> <<"admin", "staff">>]
      [] token = "tokOrganizer" ->
            [uid |-> "u2", email |-> "org@nexticket", role |-> "organizer"]
      [] OTHER ->
            [uid |-> "u3", email |-> "plain@nexticket"]

\* The message of the error admin.auth().verifyIdToken rejects with.
ProviderMessage(token) == "Firebase ID token has expired"

\* verifyIdToken without the test of this.initialized.
VerifyIdToken_Unchecked(initialized, idToken) ==
    IF idToken \in ValidTokens
    THEN [ok |-> TRUE, decoded |-> DecodedClaims(idToken)]
    ELSE [ok |-> FALSE,
          message |-> <<"Token verification failed: ", ProviderMessage(idToken)>>]

\* FirebaseConfig.verifyIdToken: the outcome of the awaited call.
VerifyIdToken(initialized, idToken) ==
    IF ~initialized
    THEN [ok |-> FALSE, message |-> <<"Firebase Admin SDK not initialized">>]
    ELSE IF idToken \in ValidTokens
    THEN [ok |-> TRUE, decoded |-> DecodedClaims(idToken)]
    ELSE [ok |-> FALSE,
          message |-> <<"Token verification failed: ", ProviderMessage(idToken)>>]

-----------------------------------------------------------------------------
(* AuthMiddleware.extractToken                                             *)

\* JavaScript null.
Null == "<null>"

\* !token
Falsy(token) == token = Null \/ token = ""

\* extractToken without the test of the scheme: parts[0] is not compared
\* with 'Bearer'.
ExtractToken_AnyScheme(authHeader) ==
    IF authHeader = <<>> \/ authHeader = <<"">>
    THEN Null
    ELSE IF Len(authHeader) # 2
    THEN Null
    ELSE authHeader[2]

\* extractToken taking the segment after 'Bearer' whatever follows it.
ExtractToken_SecondSegment(authHeader) ==
    IF authHeader = <<>> \/ authHeader = <<"">>
    THEN Null
    ELSE IF Len(authHeader) < 2 \/ authHeader[1] # "Bearer"
    THEN Null
    ELSE authHeader[2]

\* The Authorization header is held as authHeader.split(' '); <<>> is an
\* absent header and <<"">> the empty string, both falsy.
ExtractToken(authHeader) ==
    IF authHeader = <<>> \/ authHeader = <<"">>
    THEN Null
    ELSE IF Len(authHeader) # 2 \/ authHeader[1] # "Bearer"
    THEN Null
    ELSE authHeader[2]

-----------------------------------------------------------------------------
(* Route tables: routes/serviceRoutes.js and routes/index.js               *)

\* One router.use(mount, auth, requestLogger, createServiceProxy(service)).
Route(mount, auth, service) == [mount |-> mount, auth |-> auth, service |-> service]

\* The first revision's routes with the protected routes registered before
\* the public sub-routes.
RoutesR1_ProtectedFirst ==
    << Route(<<"public">>, "optionalAuth", "public"),
       Route(<<"notifi_service">>, "verifyToken", "notification"),
       Route(<<"event_service">>, "verifyToken", "event"),
       Route(<<"ticket_service">>, "verifyToken", "ticket"),
       Route(<<"user_service">>, "verifyToken", "user"),
       Route(<<"event_service", "public">>, "none", "event_public"),
       Route(<<"ticket_service", "public">>, "none", "ticket_public") >>

\* serviceRoutes.js lines 18-61, in registration order.
RoutesR1 ==
    << Route(<<"public">>, "optionalAuth", "public"),
       Route(<<"event_service", "public">>, "none", "event_public"),
       Route(<<"ticket_service", "public">>, "none", "ticket_public"),
       Route(<<"notifi_service">>, "verifyToken", "notification"),
       Route(<<"event_service">>, "verifyToken", "event"),
       Route(<<"ticket_service">>, "verifyToken", "ticket"),
       Route(<<"user_service">>, "verifyToken", "user") >>

\* serviceRoutes.js lines 81-164, in registration order.
RoutesR2 ==
    << Route(<<"public">>, "optionalAuth", "public"),
       Route(<<"notifi_service">>, "verifyToken", "notification"),
       Route(<<"event_service">>, "conditionalAuth", "event"),
       Route(<<"ticket_service">>, "conditionalAuthTicket", "ticket"),
       Route(<<"user_service">>, "verifyToken", "user") >>

Routes(rv) == IF rv = "R1" THEN RoutesR1 ELSE RoutesR2

\* Regular expressions over req.path, one element per path segment; the
\* elements "[^/]+" and "\\d+" are the character classes of the source.
publicGetPatterns ==
    << <<"api", "events">>,
       <<"api", "events", "geteventbyid", "[^/]+">>,
       <<"api", "events", "venue", "[^/]+">>,
       <<"api", "events", "organizer", "[^/]+">>,
       <<"api", "venues">>,
       <<"api", "venues", "getvenuebyid", "[^/]+">>,
       <<"api", "venues", "type", "[^/]+">>,
       <<"api", "venues", "\\d+", "seats">> >>

publicGetPatternsTicket ==
    << <<"api", "venues-events", "venues">>,
       <<"api", "venues-events", "venues", "[^/]+">>,
       <<"api", "venues-events", "events">>,
       <<"api", "venues-events", "events", "[^/]+">> >>

\* Path segments made of decimal digits only.
DigitSegments == {"42"}

\* One pattern element against one segment.
ElementTest(el, seg) ==
    CASE el = "[^/]+" -> seg # ""
      [] el = "\\d+"  -> seg \in DigitSegments
      [] OTHER        -> seg = el

\* pattern.test(path) for an anchored pattern ^...$.
PatternTest(pattern, path) ==
    /\ Len(path) = Len(pattern)
    /\ \A i \in 1..Len(pattern) : ElementTest(pattern[i], path[i])

\* method === 'GET' && patterns.some(pattern => pattern.test(path))
IsPublicGet(patterns, method, path) ==
    /\ method = "GET"
    /\ \E i \in 1..Len(patterns) : PatternTest(patterns[i], path)

\* One exception list evaluated for both services.
ExceptionPatterns_Shared(auth) ==
    IF auth \in {"conditionalAuth", "conditionalAuthTicket"}
    THEN publicGetPatterns \o publicGetPatternsTicket
    ELSE <<>>

\* The exception list that a route's auth middleware evaluates.
ExceptionPatterns(auth) ==
    CASE auth = "conditionalAuth"       -> publicGetPatterns
      [] auth = "conditionalAuthTicket" -> publicGetPatternsTicket
      [] OTHER                          -> <<>>

\* A route table whose first route takes every path no other route takes.
FirstMatch_CatchAll(routes, path) ==
    IF \E i \in 1..Len(routes) : StartsWith(path, routes[i].mount)
    THEN CHOOSE i \in 1..Len(routes) :
            /\ StartsWith(path, routes[i].mount)
            /\ \A j \in 1..(i - 1) : ~StartsWith(path, routes[j].mount)
    ELSE 1

\* express: the first route, in registration order, whose mount path is a
\* prefix of the request path; 0 when there is none.
FirstMatch(routes, path) ==
    IF \E i \in 1..Len(routes) : StartsWith(path, routes[i].mount)
    THEN CHOOSE i \in 1..Len(routes) :
            /\ StartsWith(path, routes[i].mount)
            /\ \A j \in 1..(i - 1) : ~StartsWith(path, routes[j].mount)
    ELSE 0

\* express non-strict routing: router.get(p) also matches p followed by '/'.
NoTrailingSlash(path) ==
    IF Len(path) > 0 /\ path[Len(path)] = ""
    THEN SubSeq(path, 1, Len(path) - 1)
    ELSE path

\* routes/index.js: the handler that answers (method, path).
Resolve(rv, method, path) ==
    LET p == NoTrailingSlash(path)
        i == FirstMatch(Routes(rv), path)
    IN  IF method = "GET" /\ p = <<"health">> THEN [kind |-> "health", route |-> 0]
        ELSE IF method = "GET" /\ p = <<"health", "services">>
             THEN [kind |-> "healthServices", route |-> 0]
        ELSE IF method = "GET" /\ p = <<"auth", "test">>
             THEN [kind |-> "authTest", route |-> 0]
        ELSE IF method = "GET" /\ p = <<"api", "info">>
             THEN [kind |-> "apiInfo", route |-> 0]
        ELSE IF i # 0 THEN [kind |-> "proxy", route |-> i]
        ELSE IF method = "GET" /\ p = <<>> THEN [kind |-> "root", route |-> 0]
        ELSE [kind |-> "notFound", route |-> 0]

-----------------------------------------------------------------------------
(* Requests                                                                *)

\* Authorization headers clients send: absent, wrong scheme, one part,
\* three parts, an empty token ("Bearer "), and well-formed bearer tokens.
MalformedAuthHeaders ==
    { <<"Basic", "tokPlain">>, <<"Bearer">>, <<"Bearer", "tokPlain", "x">>,
      <<"Bearer", "">>, <<"">>, <<"bearer", "tokPlain">> }

AuthHeaders == {<<>>} \cup MalformedAuthHeaders \cup {<<"Bearer", t>> : t \in Tokens}

\* Paths below a mount path.
SubPaths ==
    { <<>>,
      <<"api", "events">>,
      <<"api", "events", "">>,
      <<"api", "events", "geteventbyid", "e1">>,
      <<"api", "venues", "42", "seats">>,
      <<"api", "venues", "abc", "seats">>,
      <<"api", "venues-events", "venues">>,
      <<"api", "orders">>,
      <<"public", "api", "events">>,
      <<"health">> }

FewSubPaths == { <<>>, <<"api", "events">>, <<"api", "orders">> }

\* The gateway's own endpoints, and a path under /health that is none.
OwnPaths == { <<>>, <<"health">>, <<"api", "info">>, <<"auth", "test">>, <<"health", "x">> }

Paths ==
    {<<m>> \o sub : m \in {"event_service", "ticket_service"}, sub \in SubPaths}
    \cup {<<m>> \o sub : m \in {"public", "notifi_service", "user_service", "other_service"},
                         sub \in FewSubPaths}
    \cup OwnPaths

\* Request bodies: the content type and the bytes.
NoBody == [type |-> "none", content |-> ""]

Bodies ==
    { [type |-> "application/json", content |-> "{seat_ids}"],
      [type |-> "application/x-www-form-urlencoded", content |-> "a=1"],
      [type |-> "multipart/form-data", content |-> "--boundary..."] }

\* (method, body) pairs.
MethodBodies == {<<"GET", NoBody>>} \cup {<<"POST", b>> : b \in Bodies}

\* Identity headers a client may put on its own request.
ClientIdentityHeaders == { <<>>, <<"forged-uid">> }

\* f overridden and extended by g.
Merge(f, g) ==
    [k \in DOMAIN f \cup DOMAIN g |-> IF k \in DOMAIN g THEN g[k] ELSE f[k]]

NoHeaders == [k \in {} |-> <<>>]

\* A header's value, <<>> when it is absent.
Header(h, name) == IF name \in DOMAIN h THEN h[name] ELSE <<>>

\* The header set of an inbound request (names as node lower-cases them).
InboundHeaders(auth, body, forged) ==
    Merge(Merge(Merge([host |-> <<"gateway.nexticket">>],
                      IF auth = <<>> THEN NoHeaders ELSE [authorization |-> auth]),
                IF body.type = "none" THEN NoHeaders
                ELSE [k \in {"content-type"} |-> <<body.type>>]),
          IF forged = <<>> THEN NoHeaders ELSE [k \in {"x-user-id"} |-> forged])

\* A slot with no request in it.
IdleReq == [pc |-> "idle"]

\* server.js setupMiddleware: express.json() and express.urlencoded() read
\* the stream of a body of their type and leave req.body; any other body
\* stays in the stream.
BodyParsed(body) ==
    body.type \in {"application/json", "application/x-www-form-urlencoded"}

\* The request as the route handlers first see it.
NewReq(method, path, auth, body, forged) ==
    [ pc        |-> "received",
      method    |-> method,
      path      |-> path,
      headers   |-> InboundHeaders(auth, body, forged),
      body      |-> body,
      consumed  |-> BodyParsed(body),      \* the body stream was read
      kind      |-> "",                    \* Resolve's answer
      route     |-> 0,
      token     |-> Null,
      mode      |-> "",                    \* the middleware awaiting the provider
      user      |-> <<>>,                  \* req.user: <<>> or <<identity>>
      provider  |-> 0,                     \* calls of verifyIdToken
      nexts     |-> 0,                     \* next() calls of the auth middleware
      out       |-> <<>>,                  \* outbound requests issued
      outcome   |-> "",                    \* what the backend round trip ended in
      resp      |-> <<>> ]                 \* responses sent to the client

-----------------------------------------------------------------------------
(* Responses                                                               *)

\* new Date().toISOString() and Date.now().toString()
Timestamp == "<now>"

\* res.status(status).json(body): the response is sent and the handler ends.
Respond(q, status, body) ==
    [q EXCEPT !.pc = "done",
              !.resp = Append(@, [status |-> status, body |-> body,
                                  headers |-> NoHeaders])]

\* next() of an auth middleware: requestLogger, then the proxy (or, on
\* /auth/test, the controller).
CallNext(q) ==
    [q EXCEPT !.pc = IF q.kind = "authTest" THEN "testAuth" ELSE "proxy",
              !.nexts = @ + 1]

-----------------------------------------------------------------------------
(* AuthMiddleware: middleware/auth.js                                      *)

\* decodedToken.roles || []
RolesOrEmpty(decoded) == IF "roles" \in DOMAIN decoded THEN decoded.roles ELSE <<>>

\* verifyToken without the return before its 401: it goes on to next().
verifyTokenEnter_NoReturn(q) ==
    LET token == ExtractToken(Header(q.headers, "authorization"))
    IN  IF Falsy(token)
        THEN CallNext(Respond(q, 401, [error |-> "Unauthorized",
                                       message |-> <<"No token provided">>]))
        ELSE [q EXCEPT !.pc = "awaitProvider", !.mode = "verifyToken",
                       !.token = token, !.provider = @ + 1]

\* verifyToken up to its await: lines 30-42.
verifyTokenEnter(q) ==
    LET token == ExtractToken(Header(q.headers, "authorization"))
    IN  IF Falsy(token)
        THEN Respond(q, 401, [error |-> "Unauthorized",
                              message |-> <<"No token provided">>])
        ELSE [q EXCEPT !.pc = "awaitProvider", !.mode = "verifyToken",
                       !.token = token, !.provider = @ + 1]

\* verifyToken's catch answering with a fixed text instead of error.message.
verifyTokenResume_Generic(q, result) ==
    IF result.ok
    THEN CallNext([q EXCEPT !.user = << [uid   |-> result.decoded.uid,
                                         email |-> result.decoded.email,
                                         roles |-> RolesOrEmpty(result.decoded)] >>])
    ELSE Respond(q, 401, [error |-> "Authentication Failed",
                          message |-> <<"Token verification failed.">>])

\* verifyToken calling the provider a second time when it rejects.
verifyTokenResume_Retry(q, result) ==
    IF result.ok
    THEN CallNext([q EXCEPT !.user = << [uid   |-> result.decoded.uid,
                                         email |-> result.decoded.email,
                                         roles |-> RolesOrEmpty(result.decoded)] >>])
    ELSE IF q.provider < 2
    THEN [q EXCEPT !.provider = @ + 1]
    ELSE Respond(q, 401, [error |-> "Authentication Failed",
                          message |-> result.message])

\* verifyToken after its await: lines 44-60.
verifyTokenResume(q, result) ==
    IF result.ok
    THEN CallNext([q EXCEPT !.user = << [uid   |-> result.decoded.uid,
                                         email |-> result.decoded.email,
                                         roles |-> RolesOrEmpty(result.decoded)] >>])
    ELSE Respond(q, 401, [error |-> "Authentication Failed",
                          message |-> result.message])

\* optionalAuth answering 401 when there is no token, as verifyToken does.
optionalAuthEnter_Mandatory(q) == verifyTokenEnter(q)

\* optionalAuth up to its await: lines 102-105 and 118.
optionalAuthEnter(q) ==
    LET token == ExtractToken(Header(q.headers, "authorization"))
    IN  IF ~Falsy(token)
        THEN [q EXCEPT !.pc = "awaitProvider", !.mode = "optionalAuth",
                       !.token = token, !.provider = @ + 1]
        ELSE CallNext(q)

\* The role optionalAuth resolves: lines 107-110 and 114.
UserRole(decoded) ==
    IF "role" \in DOMAIN decoded /\ decoded.role # ""
    THEN decoded.role
    ELSE IF "roles" \in DOMAIN decoded /\ Len(decoded.roles) > 0
    THEN decoded.roles[1]
    ELSE ""

\* optionalAuth answering a rejected token as verifyToken does.
optionalAuthResume_Strict(q, result) ==
    IF result.ok
    THEN CallNext([q EXCEPT !.user = << [uid   |-> result.decoded.uid,
                                         email |-> result.decoded.email,
                                         role  |-> UserRole(result.decoded),
                                         roles |-> RolesOrEmpty(result.decoded)] >>])
    ELSE verifyTokenResume(q, result)

\* optionalAuth after its await: lines 106-122.
optionalAuthResume(q, result) ==
    IF result.ok
    THEN CallNext([q EXCEPT !.user = << [uid   |-> result.decoded.uid,
                                         email |-> result.decoded.email,
                                         role  |-> UserRole(result.decoded),
                                         roles |-> RolesOrEmpty(result.decoded)] >>])
    ELSE CallNext(q)

\* conditionalAuth without the test of the method.
conditionalAuth_AnyMethod(q, mount, patterns) ==
    IF \E i \in 1..Len(patterns) :
            PatternTest(patterns[i], DropFirst(q.path, Len(mount)))
    THEN CallNext(q)
    ELSE verifyTokenEnter(q)

\* conditionalAuth and conditionalAuthTicket: req.path is the path below the
\* mount path.
conditionalAuth(q, mount, patterns) ==
    IF IsPublicGet(patterns, q.method, DropFirst(q.path, Len(mount)))
    THEN CallNext(q)
    ELSE verifyTokenEnter(q)

\* The first middleware of a route.
AuthEnter(q, route) ==
    CASE route.auth = "none"         -> CallNext(q)
      [] route.auth = "optionalAuth" -> optionalAuthEnter(q)
      [] route.auth = "verifyToken"  -> verifyTokenEnter(q)
      [] OTHER -> conditionalAuth(q, route.mount, ExceptionPatterns(route.auth))

\* The middleware resumed by the identity provider's answer.
AuthResume(q, result) ==
    IF q.mode = "optionalAuth"
    THEN optionalAuthResume(q, result)
    ELSE verifyTokenResume(q, result)

\* req.user.roles || []
UserRolesOrEmpty(user) == IF "roles" \in DOMAIN user THEN user.roles ELSE <<>>

\* Array.isArray(requiredRoles) ? requiredRoles : [requiredRoles]
RolesArray(requiredRoles) ==
    IF requiredRoles.isArray THEN requiredRoles.items ELSE <<requiredRoles.item>>

\* array.includes(x)
Includes(array, x) == \E i \in DOMAIN array : array[i] = x

\* next() of a role check: the handler mounted after it runs.
HandlerNext(q) == [q EXCEPT !.pc = "handler", !.nexts = @ + 1]

\* req.user.role, undefined when the identity has none.
UserRoleOrUndefined(user) == IF "role" \in DOMAIN user THEN user.role ELSE "<undefined>"

\* The role check on the single role: roles.includes(req.user.role).
requireRoles_Singular(requiredRoles, q) ==
    IF q.user = <<>>
    THEN Respond(q, 401, [error |-> "Authentication required"])
    ELSE IF ~Includes(RolesArray(requiredRoles), UserRoleOrUndefined(q.user[1]))
    THEN Respond(q, 403, [error |-> "Access denied"])
    ELSE HandlerNext(q)

\* The middleware requireRoles(requiredRoles) returns: lines 66-81.
requireRoles(requiredRoles, q) ==
    LET roles == RolesArray(requiredRoles)
    IN  IF q.user = <<>>
        THEN Respond(q, 401, [error |-> "Authentication required"])
        ELSE LET hasRole == \E i \in DOMAIN roles :
                                Includes(UserRolesOrEmpty(q.user[1]), roles[i])
             IN  IF ~hasRole
                 THEN Respond(q, 403, [error |-> "Access denied"])
                 ELSE HandlerNext(q)

\* requireAdmin: lines 86-96.
requireAdmin(q) ==
    IF q.user = <<>>
    THEN Respond(q, 401, [error |-> "Authentication required"])
    ELSE IF ~Includes(UserRolesOrEmpty(q.user[1]), "admin")
    THEN Respond(q, 403, [error |-> "Admin access required"])
    ELSE HandlerNext(q)

-----------------------------------------------------------------------------
(* ProxyConfig.createServiceProxy: config/proxy.js                         *)

\* JSON.stringify of an array of strings, piece by piece.
RECURSIVE JsonItems(_)
JsonItems(items) ==
    IF Len(items) = 0 THEN <<>>
    ELSE <<"\"", Head(items), "\"">>
         \o (IF Len(items) = 1 THEN <<>> ELSE <<",">> \o JsonItems(Tail(items)))

JsonStringify(items) == <<"[">> \o JsonItems(items) \o <<"]">>

\* A proxy without the pathRewrite option: the original URL is forwarded.
PathRewrite_None(serviceName, path) == path

\* pathRewrite { '^/<prefix>': '' } applied to the original URL.
PathRewrite(serviceName, path) ==
    IF StartsWith(path, RewritePrefix(serviceName))
    THEN DropFirst(path, Len(RewritePrefix(serviceName)))
    ELSE path

\* onProxyReq setting the identity headers without the test of req.user.
onProxyReq_Unconditional(serviceName, q) ==
    Merge(Merge([k \in {"x-forwarded-host"} |-> Header(q.headers, "host")],
                [k \in {"x-user-id", "x-user-email", "x-user-roles"} |->
                    IF q.user # <<>>
                    THEN CASE k = "x-user-id"    -> <<q.user[1].uid>>
                           [] k = "x-user-email" -> <<q.user[1].email>>
                           [] OTHER -> JsonStringify(UserRolesOrEmpty(q.user[1]))
                    ELSE CASE k = "x-user-roles" -> JsonStringify(<<>>)
                           [] OTHER              -> <<"">>]),
          [k \in {"x-gateway-service", "x-gateway-timestamp"} |->
                IF k = "x-gateway-service" THEN <<serviceName>> ELSE <<Timestamp>>])

\* onProxyReq: the headers set on the outbound request, lines 56-72.
onProxyReq(serviceName, q) ==
    Merge(Merge([k \in {"x-forwarded-host"} |-> Header(q.headers, "host")],
                IF q.user # <<>>
                THEN [k \in {"x-user-id", "x-user-email", "x-user-roles"} |->
                        CASE k = "x-user-id"    -> <<q.user[1].uid>>
                          [] k = "x-user-email" -> <<q.user[1].email>>
                          [] OTHER -> JsonStringify(UserRolesOrEmpty(q.user[1]))]
                ELSE NoHeaders),
          [k \in {"x-gateway-service", "x-gateway-timestamp"} |->
                IF k = "x-gateway-service" THEN <<serviceName>> ELSE <<Timestamp>>])

\* The body the proxy pipes to the backend: what is left in the request
\* stream.  onProxyReq writes nothing to proxyReq.
ForwardedBody(q) ==
    IF q.body.type = "none" \/ q.consumed THEN <<>> ELSE <<q.body.content>>

\* The outbound request: the inbound headers (changeOrigin: true puts the
\* target's host), overridden by onProxyReq's; the rewritten path.
Outbound(serviceName, q) ==
    [ service |-> serviceName,
      target  |-> Target(serviceName),
      method  |-> q.method,
      path    |-> PathRewrite(serviceName, q.path),
      headers |-> Merge(Merge(q.headers, [host |-> <<Target(serviceName)>>]),
                        onProxyReq(serviceName, q)),
      body    |-> ForwardedBody(q) ]

\* onProxyRes: the headers put on the backend's response, lines 89-100.
onProxyRes(serviceName) ==
    [k \in {"access-control-allow-origin", "x-proxied-by", "x-service"} |->
        CASE k = "access-control-allow-origin" -> <<"*">>
          [] k = "x-proxied-by"                -> <<"NexTicket-API-Gateway">>
          [] OTHER                             -> <<serviceName>>]

\* onError with the test of res.headersSent inverted.
onError_HeadersSentInverted(serviceName, q) ==
    IF q.resp = <<>>
    THEN [q EXCEPT !.pc = "done"]
    ELSE Respond(q, 502,
                 [error     |-> "Bad Gateway",
                  message   |-> <<"Service ", serviceName, " is currently unavailable">>,
                  service   |-> serviceName,
                  timestamp |-> Timestamp])

\* onError: lines 74-86.
onError(serviceName, q) ==
    IF q.resp # <<>>
    THEN [q EXCEPT !.pc = "done"]
    ELSE Respond(q, 502,
                 [error     |-> "Bad Gateway",
                  message   |-> <<"Service ", serviceName, " is currently unavailable">>,
                  service   |-> serviceName,
                  timestamp |-> Timestamp])

\* Status codes a backend answers with.
BackendStatuses == {200, 401, 503}

BackendBody == [data |-> "backend payload"]

-----------------------------------------------------------------------------
(* Controllers                                                             *)

\* ApiController.handleNotFound: apiController.js lines 75-94.
handleNotFound(q) ==
    Respond(q, 404, [error           |-> "Not Found",
                     message         |-> <<"Route ", "req.originalUrl", " not found">>,
                     availableRoutes |-> "availableRoutes",
                     timestamp       |-> Timestamp])

\* HealthController.getHealth, ApiController.getApiInfo and getRoot.
OwnEndpoint(q, kind) ==
    Respond(q, 200,
            CASE kind = "health"  -> [status |-> "healthy", timestamp |-> Timestamp]
              [] kind = "apiInfo" -> [name |-> "NexTicket API Gateway",
                                      timestamp |-> Timestamp]
              [] OTHER            -> [message |-> <<"NexTicket API Gateway">>,
                                      timestamp |-> Timestamp])

\* AuthController.testAuth: authController.js lines 5-16.
testAuth(q) ==
    Respond(q, 200, [message   |-> <<"Authentication successful">>,
                     user      |-> [uid |-> q.user[1].uid, email |-> q.user[1].email,
                                    roles |-> UserRolesOrEmpty(q.user[1])],
                     timestamp |-> Timestamp])

\* The order of Object.entries(this.services).
ServiceOrder ==
    <<"notification", "event", "ticket", "public",
      "user", "event_public", "ticket_public">>

RegisteredOrder(svcs) == SelectSeq(ServiceOrder, LAMBDA s : s \in svcs)

\* What one probe of checkServicesHealth ends in: response.ok, a response
\* that is not ok, or fetch rejecting (the connection failed, or no
\* response came within the timeout of 5000 ms).
ProbeOutcomes == {"2xx", "non-2xx", "failed"}

\* One iteration of the loop with response.ok taken for any response.
ProbeEntry_AnyResponse(serviceName, outcome) ==
    CASE outcome = "failed" -> [status |-> "unreachable", url |-> Target(serviceName)]
      [] OTHER              -> [status |-> "healthy", url |-> Target(serviceName)]

\* One iteration of the loop of checkServicesHealth: proxy.js lines 156-176.
ProbeEntry(serviceName, outcome) ==
    CASE outcome = "2xx"     -> [status |-> "healthy",   url |-> Target(serviceName)]
      [] outcome = "non-2xx" -> [status |-> "unhealthy", url |-> Target(serviceName)]
      [] OTHER               -> [status |-> "unreachable", url |-> Target(serviceName)]

\* getServicesHealth with some() in place of every().
getServicesHealth_Some(servicesHealth) ==
    LET overallHealthy ==
            \E n \in DOMAIN servicesHealth : servicesHealth[n].status = "healthy"
    IN  [status |-> IF overallHealthy THEN 200 ELSE 503,
         body   |-> [overall   |-> IF overallHealthy THEN "healthy" ELSE "degraded",
                     services  |-> servicesHealth,
                     timestamp |-> Timestamp]]

\* HealthController.getServicesHealth once the probes are in:
\* authController.js lines 51-59.
getServicesHealth(servicesHealth) ==
    LET overallHealthy ==
            \A n \in DOMAIN servicesHealth : servicesHealth[n].status = "healthy"
    IN  [status |-> IF overallHealthy THEN 200 ELSE 503,
         body   |-> [overall   |-> IF overallHealthy THEN "healthy" ELSE "degraded",
                     services  |-> servicesHealth,
                     timestamp |-> Timestamp]]

NoProbes == [n \in {} |-> [status |-> "", url |-> ""]]

IdleHc == [pc |-> "idle"]

-----------------------------------------------------------------------------
(* Start-up                                                                *)

Init ==
    /\ phase = "boot"
    /\ rev \in {"R1", "R2"}
    /\ services \in Registries
    /\ fbInitialized = FALSE
    /\ req = [r \in {1} |-> IdleReq]
    /\ hc = IdleHc

\* The entry looked up when a request is proxied, not when the routes load.
AllProxiesCreated_Lazy == TRUE

\* createServiceProxy(serviceName) finds its entry: proxy.js lines 44-48.
AllProxiesCreated ==
    \A i \in 1..Len(Routes(rev)) : Routes(rev)[i].service \in services

\* Loading routes/serviceRoutes.js throws 'Unknown service': the process
\* ends before the gateway listens.
LoadRoutesFail ==
    /\ phase = "boot"
    /\ ~AllProxiesCreated
    /\ phase' = "crashed"
    /\ UNCHANGED <<rev, services, fbInitialized, req, hc>>

\* new APIGateway().start(): initializeFirebase catches a failed
\* initialization and the gateway starts all the same (server.js 25-36).
Listen ==
    /\ phase = "boot"
    /\ AllProxiesCreated
    /\ \E initialized \in BOOLEAN : fbInitialized' = initialized
    /\ phase' = "listening"
    /\ UNCHANGED <<rev, services, req, hc>>

-----------------------------------------------------------------------------
(* One request                                                             *)

\* A request arrives and passes the body parsers.  This specification
\* handles one request at a time.
Receive(r) ==
    /\ phase = "listening"
    /\ hc.pc = "idle"
    /\ \A o \in DOMAIN req : req[o].pc = "idle"
    /\ \E path \in Paths, mb \in MethodBodies, auth \in AuthHeaders,
          forged \in ClientIdentityHeaders :
            req' = [req EXCEPT ![r] = NewReq(mb[1], path, auth, mb[2], forged)]
    /\ UNCHANGED <<phase, rev, services, fbInitialized, hc>>

\* routes/index.js picks the handler; the gateway's own endpoints and the
\* catch-all answer at once, a service route enters its auth middleware.
Dispatch(r) ==
    /\ req[r].pc = "received"
    /\ LET q   == req[r]
           res == Resolve(rev, q.method, q.path)
           q1  == [q EXCEPT !.kind = res.kind, !.route = res.route]
       IN  req' = [req EXCEPT ![r] =
                CASE res.kind = "proxy"    -> AuthEnter(q1, Routes(rev)[res.route])
                  [] res.kind = "authTest" -> verifyTokenEnter(q1)
                  [] res.kind = "notFound" -> handleNotFound(q1)
                  [] OTHER                 -> OwnEndpoint(q1, res.kind)]
    /\ UNCHANGED <<phase, rev, services, fbInitialized, hc>>

\* The provider's answer made for the token of whichever request called
\* it, were the token kept in one place for all requests.
ProviderReturn_SharedToken(r) ==
    /\ req[r].pc = "awaitProvider"
    /\ \E o \in DOMAIN req :
        /\ req[o].pc \in {"awaitProvider", "proxy", "awaitBackend"}
        /\ ~Falsy(req[o].token)
        /\ req' = [req EXCEPT ![r] =
                    AuthResume(req[r], VerifyIdToken(fbInitialized, req[o].token))]
    /\ UNCHANGED <<phase, rev, services, fbInitialized, hc>>

\* The awaited firebaseConfig.verifyIdToken(token) settles.
ProviderReturn(r) ==
    /\ req[r].pc = "awaitProvider"
    /\ req' = [req EXCEPT ![r] =
                AuthResume(req[r], VerifyIdToken(fbInitialized, req[r].token))]
    /\ UNCHANGED <<phase, rev, services, fbInitialized, hc>>

\* GET /auth/test after verifyToken.
TestAuth(r) ==
    /\ req[r].pc = "testAuth"
    /\ req' = [req EXCEPT ![r] = testAuth(req[r])]
    /\ UNCHANGED <<phase, rev, services, fbInitialized, hc>>

\* A proxy that honours the bypass option the way a dev-server does: a
\* request whose path below the mount is /health or /ping is not proxied,
\* it goes on to the next handler of the gateway, the catch-all.
ProxyRequest_Bypass(r) ==
    /\ req[r].pc = "proxy"
    /\ LET q == req[r]
           serviceName == Routes(rev)[q.route].service
           path == DropFirst(q.path, Len(Routes(rev)[q.route].mount))
       IN  req' = [req EXCEPT ![r] =
                IF path \in {<<"health">>, <<"ping">>}
                THEN handleNotFound(q)
                ELSE [q EXCEPT !.pc = "awaitBackend",
                               !.out = Append(@, Outbound(serviceName, q))]]
    /\ UNCHANGED <<phase, rev, services, fbInitialized, hc>>

\* The proxy middleware issues the outbound request.  bypass (proxy.js
\* lines 111-116) is no option of http-proxy-middleware: it is never called.
ProxyRequest(r) ==
    /\ req[r].pc = "proxy"
    /\ LET q == req[r]
           serviceName == Routes(rev)[q.route].service
       IN  req' = [req EXCEPT ![r] =
                [q EXCEPT !.pc = "awaitBackend",
                          !.out = Append(@, Outbound(serviceName, q))]]
    /\ UNCHANGED <<phase, rev, services, fbInitialized, hc>>

\* The backend answers; status and body pass through, onProxyRes adds headers.
BackendRespond(r) ==
    /\ req[r].pc = "awaitBackend"
    /\ \E status \in BackendStatuses :
        req' = [req EXCEPT ![r] =
            [req[r] EXCEPT !.pc = "done", !.outcome = "responded",
                           !.resp = Append(@, [status  |-> status,
                                               body    |-> BackendBody,
                                               headers |-> onProxyRes(req[r].out[1].service)])]]
    /\ UNCHANGED <<phase, rev, services, fbInitialized, hc>>

\* The connection to the backend is refused: http-proxy emits 'error'.
BackendRefuse(r) ==
    /\ req[r].pc = "awaitBackend"
    /\ req' = [req EXCEPT ![r] =
                onError(req[r].out[1].service, [req[r] EXCEPT !.outcome = "refused"])]
    /\ UNCHANGED <<phase, rev, services, fbInitialized, hc>>

\* No answer within proxyTimeout: the outbound request is aborted and
\* http-proxy emits 'error' (proxy.js lines 102-104).
BackendTimeout(r) ==
    /\ req[r].pc = "awaitBackend"
    /\ req' = [req EXCEPT ![r] =
                onError(req[r].out[1].service, [req[r] EXCEPT !.outcome = "timeout"])]
    /\ UNCHANGED <<phase, rev, services, fbInitialized, hc>>

\* The request is over; the slot takes the next one.
Finish(r) ==
    /\ req[r].pc = "done"
    /\ req' = [req EXCEPT ![r] = IdleReq]
    /\ UNCHANGED <<phase, rev, services, fbInitialized, hc>>

-----------------------------------------------------------------------------
(* GET /health/services                                                    *)

\* HealthController.getServicesHealth calls proxyConfig.checkServicesHealth().
HealthStart ==
    /\ phase = "listening"
    /\ hc.pc = "idle"
    /\ \A o \in DOMAIN req : req[o].pc = "idle"
    /\ hc' = [pc |-> "probing", idx |-> 1, healthStatus |-> NoProbes,
              fetches |-> <<>>,         \* the services a fetch was issued to
              probes |-> <<>>,          \* what each probed backend did
              resp |-> <<>>]
    /\ UNCHANGED <<phase, rev, services, fbInitialized, req>>

\* One iteration of the for loop, up to its await: fetch is called for the
\* service the loop is at.  The loop reaches the next service only when the
\* awaited fetch of this one has settled.
HealthFetch ==
    /\ hc.pc = "probing"
    /\ hc.idx <= Len(RegisteredOrder(services))
    /\ Len(hc.fetches) < hc.idx
    /\ hc' = [hc EXCEPT !.fetches = Append(@, RegisteredOrder(services)[hc.idx])]
    /\ UNCHANGED <<phase, rev, services, fbInitialized, req>>

\* The rest of the iteration: the awaited fetch settles.
HealthProbe ==
    /\ hc.pc = "probing"
    /\ hc.idx <= Len(RegisteredOrder(services))
    /\ Len(hc.fetches) = hc.idx
    /\ LET serviceName == RegisteredOrder(services)[hc.idx]
       IN  \E outcome \in ProbeOutcomes :
            hc' = [hc EXCEPT !.idx = @ + 1,
                             !.probes = Append(@, [service |-> serviceName,
                                                   outcome |-> outcome]),
                             !.healthStatus = Merge(@, [n \in {serviceName} |->
                                                ProbeEntry(serviceName, outcome)])]
    /\ UNCHANGED <<phase, rev, services, fbInitialized, req>>

\* The loop is over: the aggregate is sent.
HealthFinish ==
    /\ hc.pc = "probing"
    /\ hc.idx > Len(RegisteredOrder(services))
    /\ hc' = [hc EXCEPT !.pc = "done",
                        !.resp = Append(@, getServicesHealth(hc.healthStatus))]
    /\ UNCHANGED <<phase, rev, services, fbInitialized, req>>

HealthReset ==
    /\ hc.pc = "done"
    /\ hc' = IdleHc
    /\ UNCHANGED <<phase, rev, services, fbInitialized, req>>

-----------------------------------------------------------------------------

Next ==
    \/ LoadRoutesFail
    \/ Listen
    \/ \E r \in DOMAIN req : Receive(r)
    \/ \E r \in DOMAIN req : Dispatch(r)
    \/ \E r \in DOMAIN req : ProviderReturn(r)
    \/ \E r \in DOMAIN req : TestAuth(r)
    \/ \E r \in DOMAIN req : ProxyRequest(r)
    \/ \E r \in DOMAIN req : BackendRespond(r)
    \/ \E r \in DOMAIN req : BackendRefuse(r)
    \/ \E r \in DOMAIN req : BackendTimeout(r)
    \/ \E r \in DOMAIN req : Finish(r)
    \/ HealthStart
    \/ HealthFetch
    \/ HealthProbe
    \/ HealthFinish
    \/ HealthReset

Spec == Init /\ [][Next]_vars

-----------------------------------------------------------------------------
(* The role checks, mounted after an auth middleware                       *)

\* The arguments requireRoles is built with: arrays of roles, and single
\* role names.
RequiredRolesArgs ==
    { [isArray |-> TRUE, items |-> items] :
        items \in { <<>>, <<"admin">>, <<"staff">>, <<"organizer">>,
                    <<"admin", "organizer">>, <<"organizer", "staff">> } }
    \cup { [isArray |-> FALSE, item |-> item] : item \in {"admin", "customer"} }

\* The role checks a route may mount.
RoleChecks ==
    { [check |-> "requireAdmin"] }
    \cup { [check |-> "requireRoles", requiredRoles |-> a] : a \in RequiredRolesArgs }

\* req.user as the middleware before a role check leaves it: not set, or
\* set by verifyToken or by optionalAuth from the claims of a valid token.
UsersAtRoleCheck ==
    { <<>> }
    \cup { verifyTokenResume(NewReq("GET", <<>>, <<>>, NoBody, <<>>),
                             VerifyIdToken(TRUE, t)).user : t \in ValidTokens }
    \cup { optionalAuthResume(NewReq("GET", <<>>, <<>>, NoBody, <<>>),
                              VerifyIdToken(TRUE, t)).user : t \in ValidTokens }

\* A request that has reached a role check.
AtRoleCheck(method, user, roleCheck) ==
    Merge([NewReq(method, <<"admin", "panel">>, <<>>, NoBody, <<>>)
                EXCEPT !.pc = "roleCheck", !.user = user],
          [roleCheck |-> roleCheck])

InitRoles ==
    /\ phase = "listening"
    /\ rev = "R2"
    /\ services = AllServices
    /\ fbInitialized = TRUE
    /\ hc = IdleHc
    /\ req \in { [r \in {1} |-> AtRoleCheck(method, user, roleCheck)] :
                    method \in {"GET", "POST"}, user \in UsersAtRoleCheck,
                    roleCheck \in RoleChecks }

RequireRoles(r) ==
    /\ req[r].pc = "roleCheck"
    /\ req[r].roleCheck.check = "requireRoles"
    /\ req' = [req EXCEPT ![r] = requireRoles(req[r].roleCheck.requiredRoles, req[r])]
    /\ UNCHANGED <<phase, rev, services, fbInitialized, hc>>

RequireAdmin(r) ==
    /\ req[r].pc = "roleCheck"
    /\ req[r].roleCheck.check = "requireAdmin"
    /\ req' = [req EXCEPT ![r] = requireAdmin(req[r])]
    /\ UNCHANGED <<phase, rev, services, fbInitialized, hc>>

NextRoles ==
    \/ \E r \in DOMAIN req : RequireRoles(r)
    \/ \E r \in DOMAIN req : RequireAdmin(r)

SpecRoles == InitRoles /\ [][NextRoles]_vars

\* The gateway with its routes, and the role checks on the requests that
\* reach them: every auth middleware of middleware/auth.js and
\* routes/serviceRoutes.js.
InitAuth == Init \/ InitRoles

NextAuth == Next \/ NextRoles

SpecAuth == InitAuth /\ [][NextAuth]_vars

-----------------------------------------------------------------------------
(* The global error handler: server.js setupErrorHandling                  *)

\* Errors passed to next(error) or thrown by a middleware: the body parsers'
\* (malformed JSON, body over the limit) and plain Errors.  An absent field
\* is not in the record; the strings stand for the error's own texts.
ThrownErrors ==
    { [name |-> "SyntaxError", message |-> <<"Unexpected token } in JSON at position 9">>,
       status |-> 400, stack |-> <<"SyntaxError: ... at JSON.parse">>],
      [name |-> "PayloadTooLargeError", message |-> <<"request entity too large">>,
       status |-> 413, stack |-> <<"PayloadTooLargeError: ... at readStream">>],
      [name |-> "TypeError", message |-> <<"Cannot read properties of undefined">>,
       stack |-> <<"TypeError: ... at handler">>],
      [name |-> "Error", message |-> <<"connect to db-internal:5432 failed">>,
       stack |-> <<"Error: ... at /app/src">>],
      [name |-> "", message |-> <<>>, stack |-> <<"at /app/src">>] }

\* process.env.NODE_ENV
NodeEnvs == {"production", "development", "<unset>"}

\* The error handler (error, req, res, next): lines 107-120.
errorHandler(q, error, nodeEnv) ==
    LET isDevelopment == nodeEnv # "production"
    IN  Respond(q,
                IF "status" \in DOMAIN error THEN error.status ELSE 500,
                Merge([error     |-> IF error.name # "" THEN error.name
                                     ELSE "Internal Server Error",
                       message   |-> IF error.message # <<>> THEN error.message
                                     ELSE <<"An unexpected error occurred">>,
                       requestId |-> "req.requestId",
                       timestamp |-> Timestamp],
                      IF isDevelopment THEN [stack |-> error.stack]
                      ELSE [k \in {} |-> <<>>]))

\* A request on which a middleware has thrown.
AtErrorHandler(method, path, body, error, nodeEnv) ==
    Merge([NewReq(method, path, <<>>, body, <<>>) EXCEPT !.pc = "error"],
          [thrown |-> [error |-> error, nodeEnv |-> nodeEnv]])

InitErr ==
    /\ phase = "listening"
    /\ rev = "R2"
    /\ services = AllServices
    /\ fbInitialized = TRUE
    /\ hc = IdleHc
    /\ req \in { [r \in {1} |-> AtErrorHandler(mb[1], path, mb[2], error, nodeEnv)] :
                    mb \in MethodBodies,
                    path \in {<<"public">> \o sub : sub \in FewSubPaths},
                    error \in ThrownErrors, nodeEnv \in NodeEnvs }

ErrorHandler(r) ==
    /\ req[r].pc = "error"
    /\ req' = [req EXCEPT ![r] =
                errorHandler(req[r], req[r].thrown.error, req[r].thrown.nodeEnv)]
    /\ UNCHANGED <<phase, rev, services, fbInitialized, hc>>

NextErr == \E r \in DOMAIN req : ErrorHandler(r)

SpecErr == InitErr /\ [][NextErr]_vars

-----------------------------------------------------------------------------
(* Requests in flight at the same time                                     *)

\* How many requests the gateway holds at once here.
MaxInFlight == 2

\* Requests to a route with verifyToken and to one with optionalAuth.
ConcPaths == { <<"notifi_service", "api", "orders">>, <<"public", "api", "events">> }

ConcAuthHeaders ==
    { <<>>, <<"Bearer", "tokAdminStaff">>, <<"Bearer", "tokOrganizer">>,
      <<"Bearer", "tokExpired">> }

\* The gateway is listening, with every service of the routes registered.
InitConc ==
    /\ phase = "listening"
    /\ rev = "R2"
    /\ services = AllServices
    /\ fbInitialized = TRUE
    /\ req = [r \in 1..MaxInFlight |-> IdleReq]
    /\ hc = IdleHc

\* A request arrives while others are awaiting the provider or a backend.
ReceiveConc(r) ==
    /\ phase = "listening"
    /\ req[r].pc = "idle"
    /\ \E path \in ConcPaths, auth \in ConcAuthHeaders :
            req' = [req EXCEPT ![r] = NewReq("GET", path, auth, NoBody, <<>>)]
    /\ UNCHANGED <<phase, rev, services, fbInitialized, hc>>

NextConc ==
    \/ \E r \in DOMAIN req : ReceiveConc(r)
    \/ \E r \in DOMAIN req : Dispatch(r)
    \/ \E r \in DOMAIN req : ProviderReturn(r)
    \/ \E r \in DOMAIN req : ProxyRequest(r)
    \/ \E r \in DOMAIN req : BackendRespond(r)
    \/ \E r \in DOMAIN req : BackendRefuse(r)
    \/ \E r \in DOMAIN req : BackendTimeout(r)
    \/ \E r \in DOMAIN req : Finish(r)

SpecConc == InitConc /\ [][NextConc]_vars

-----------------------------------------------------------------------------
(* Vocabulary of the properties                                            *)

\* The request in slot r has been handed to its handler.
Dispatched(r) == req[r].pc \notin {"idle", "received"}

\* The gateway has answered the request in slot r with exactly this status.
AnsweredWith(r, status) ==
    /\ req[r].pc = "done"
    /\ Len(req[r].resp) = 1
    /\ req[r].resp[1].status = status

\* The Authorization header of the request in slot r.
Authorization(r) == Header(req[r].headers, "authorization")

\* "Bearer <token>" with a non-empty token.
WellFormedBearer(h) == Len(h) = 2 /\ h[1] = "Bearer" /\ h[2] # ""

\* First path segments of the protected services.
ProtectedPrefixes == {"notifi_service", "event_service", "ticket_service", "user_service"}

UnderProtectedPrefix(r) ==
    /\ Len(req[r].path) > 0
    /\ req[r].path[1] \in ProtectedPrefixes

\* The request is under the public sub-route of a protected prefix
\* (revision R1) or matches a GET exception of its service (revision R2).
CoveredByException(r) ==
    LET q == req[r]
    IN  \/ /\ rev = "R1"
           /\ Len(q.path) > 1
           /\ q.path[1] \in {"event_service", "ticket_service"}
           /\ q.path[2] = "public"
        \/ /\ rev = "R2"
           /\ q.path[1] = "event_service"
           /\ IsPublicGet(publicGetPatterns, q.method, Tail(q.path))
        \/ /\ rev = "R2"
           /\ q.path[1] = "ticket_service"
           /\ IsPublicGet(publicGetPatternsTicket, q.method, Tail(q.path))

\* The public mount path the request in slot r is under, <<>> if none.
PublicMount(r) ==
    LET q == req[r]
    IN  IF StartsWith(q.path, <<"public">>) THEN <<"public">>
        ELSE IF rev = "R1" /\ StartsWith(q.path, <<"event_service", "public">>)
             THEN <<"event_service", "public">>
        ELSE IF rev = "R1" /\ StartsWith(q.path, <<"ticket_service", "public">>)
             THEN <<"ticket_service", "public">>
        ELSE <<>>

\* The service registered for a public mount path.
PublicService(mount) ==
    CASE mount = <<"public">>                  -> "public"
      [] mount = <<"event_service", "public">> -> "event_public"
      [] OTHER                                 -> "ticket_public"

\* The auth step let the request through: it is at the proxy step, or the
\* proxy has issued exactly one outbound request, to this service.
AtProxyOf(r, serviceName) ==
    \/ req[r].pc = "proxy" /\ req[r].out = <<>>
    \/ /\ req[r].pc \in {"awaitBackend", "done"}
       /\ Len(req[r].out) = 1
       /\ req[r].out[1].service = serviceName

-----------------------------------------------------------------------------
(* C1 - C10                                                                *)

\* C1: on every protected prefix, a request that no exception rule covers
\* and whose Authorization header is absent or malformed is answered 401
\* by the time it is dispatched, and no outbound request is ever issued
\* for it.
C1_NoTokenRejected ==
    \A r \in DOMAIN req :
        ( /\ Dispatched(r)
          /\ UnderProtectedPrefix(r)
          /\ ~CoveredByException(r)
          /\ ~WellFormedBearer(Authorization(r)) )
        => /\ AnsweredWith(r, 401)
           /\ req[r].out = <<>>
           /\ req[r].provider = 0

C1_Witness ==
    \E r \in DOMAIN req :
        /\ Dispatched(r)
        /\ req[r].path = <<"user_service", "api", "orders">>
        /\ Authorization(r) = <<"Basic", "tokPlain">>
        /\ AnsweredWith(r, 401)
        /\ req[r].out = <<>>

\* C2: on every public prefix, a request with no Authorization header is
\* let through by the auth step, has no identity attached, and the only
\* outbound request issued for it goes to the public service of the prefix.
C2_PublicNoTokenForwarded ==
    \A r \in DOMAIN req :
        ( /\ Dispatched(r)
          /\ PublicMount(r) # <<>>
          /\ Authorization(r) = <<>> )
        => /\ AtProxyOf(r, PublicService(PublicMount(r)))
           /\ req[r].user = <<>>
           /\ req[r].pc = "done" =>
                /\ Len(req[r].resp) = 1
                /\ req[r].outcome = "responded" => req[r].resp[1].body = BackendBody

C2_Witness ==
    \E r \in DOMAIN req :
        /\ Dispatched(r)
        /\ req[r].pc = "awaitBackend"
        /\ req[r].path = <<"public", "api", "events">>
        /\ Authorization(r) = <<>>
        /\ req[r].user = <<>>
        /\ req[r].out[1].service = "public"

\* C3: where a service in mandatory mode has a GET exception for a path
\* pattern, a token-less GET on a matching path is let through to the
\* service's proxy, and a token-less request with another method on the
\* same path is answered 401 and never forwarded.
C3_GetExceptionOnly ==
    \A r \in DOMAIN req :
        \A svc \in {"event", "ticket"} :
            LET q        == req[r]
                patterns == IF svc = "event" THEN publicGetPatterns
                            ELSE publicGetPatternsTicket
            IN  ( /\ Dispatched(r)
                  /\ rev = "R2"
                  /\ StartsWith(q.path, RewritePrefix(svc))
                  /\ \E i \in 1..Len(patterns) : PatternTest(patterns[i], Tail(q.path))
                  /\ ~WellFormedBearer(Authorization(r)) )
                => IF q.method = "GET"
                   THEN AtProxyOf(r, svc) /\ q.user = <<>>
                   ELSE AnsweredWith(r, 401) /\ q.out = <<>>

C3_Witness ==
    \E r \in DOMAIN req :
        /\ Dispatched(r)
        /\ rev = "R2"
        /\ req[r].pc = "done"
        /\ req[r].method = "GET"
        /\ req[r].path = <<"event_service", "api", "venues", "42", "seats">>
        /\ Authorization(r) = <<>>
        /\ req[r].out # <<>>
        /\ req[r].outcome = "responded"

\* C4: on a mandatory path, when the identity provider rejects the
\* presented token, the answer is 401 'Authentication Failed', its message
\* carries the provider's error message, and no outbound request is ever
\* issued.
C4_AuthenticationFailed ==
    \A r \in DOMAIN req :
        ( /\ Dispatched(r)
          /\ fbInitialized
          /\ UnderProtectedPrefix(r)
          /\ ~CoveredByException(r)
          /\ WellFormedBearer(Authorization(r))
          /\ Authorization(r)[2] \in RejectedTokens )
        => /\ req[r].out = <<>>
           /\ req[r].pc \in {"awaitProvider", "done"}
           /\ req[r].pc = "done" =>
                /\ AnsweredWith(r, 401)
                /\ req[r].resp[1].body.error = "Authentication Failed"
                /\ \E i \in DOMAIN req[r].resp[1].body.message :
                        req[r].resp[1].body.message[i]
                            = ProviderMessage(Authorization(r)[2])

C4_Witness ==
    \E r \in DOMAIN req :
        /\ Dispatched(r)
        /\ fbInitialized
        /\ req[r].path = <<"notifi_service", "api", "events">>
        /\ Authorization(r) = <<"Bearer", "tokExpired">>
        /\ AnsweredWith(r, 401)
        /\ req[r].resp[1].body.error = "Authentication Failed"
        /\ req[r].provider = 1

\* C5: for provider claims roles = ["admin","staff"] with no scalar role,
\* the identity attached to the request holds the single role "admin" and
\* the outbound X-User-Role header carries that same value, on the
\* mandatory and on the optional path.
C5_SingleRoleEverywhere ==
    \A r \in DOMAIN req :
        ( /\ Dispatched(r)
          /\ req[r].token = "tokAdminStaff"
          /\ req[r].user # <<>> )
        => /\ "role" \in DOMAIN req[r].user[1]
           /\ req[r].user[1].role = "admin"
           /\ req[r].out # <<>> =>
                Header(req[r].out[1].headers, "x-user-role") = <<"admin">>

\* C6: the outbound path is the inbound path with exactly the mount path
\* of the matched route removed, and it is sent to the target of the
\* route's service; /ticket_service/api/orders goes to the ticket target
\* as /api/orders.
C6_PrefixStripped ==
    \A r \in DOMAIN req :
        (Dispatched(r) /\ req[r].out # <<>>)
        => LET q == req[r]
               o == q.out[1]
           IN  /\ q.path = Routes(rev)[q.route].mount \o o.path
               /\ o.service = Routes(rev)[q.route].service
               /\ o.target = Target(o.service)
               /\ q.path = <<"ticket_service", "api", "orders">> =>
                    /\ o.target = "http://localhost:8000"
                    /\ o.path = <<"api", "orders">>

C6_Witness ==
    \E r \in DOMAIN req :
        /\ Dispatched(r)
        /\ req[r].path = <<"ticket_service", "api", "orders">>
        /\ req[r].out # <<>>
        /\ req[r].out[1].path = <<"api", "orders">>
        /\ req[r].outcome = "responded"

\* C7: a request whose backend did not answer within the timeout is
\* answered 503 with retryable: true, which the answer to a refused
\* connection is not.
C7_TimeoutAnswered503 ==
    \A r \in DOMAIN req :
        (Dispatched(r) /\ req[r].outcome = "timeout")
        => /\ AnsweredWith(r, 503)
           /\ "retryable" \in DOMAIN req[r].resp[1].body
           /\ req[r].resp[1].body.retryable = TRUE

\* C8: an admitted request whose backend refused the connection is
\* answered 502, once, with a body that names the service of its route.
C8_RefusedAnswered502 ==
    \A r \in DOMAIN req :
        (Dispatched(r) /\ req[r].outcome = "refused")
        => /\ AnsweredWith(r, 502)
           /\ req[r].resp[1].status \notin {401, 403}
           /\ req[r].resp[1].body.service = Routes(rev)[req[r].route].service
           /\ req[r].resp[1].body.message[2] = Routes(rev)[req[r].route].service

C8_Witness ==
    \E r \in DOMAIN req :
        /\ Dispatched(r)
        /\ req[r].outcome = "refused"
        /\ req[r].path = <<"event_service", "api", "orders">>
        /\ req[r].user # <<>>
        /\ AnsweredWith(r, 502)
        /\ req[r].resp[1].body.service = "event"

\* C9: the backend receives the body of a forwarded request exactly once,
\* with the original content, whether the gateway's parsers read it or not.
C9_BodyForwardedOnce ==
    \A r \in DOMAIN req :
        ( /\ Dispatched(r)
          /\ req[r].out # <<>>
          /\ req[r].body.type # "none" )
        => req[r].out[1].body = <<req[r].body.content>>

-----------------------------------------------------------------------------
(* Probes of GET /health/services                                          *)

\* The services a fetch is out to and has not settled.
ProbesOutstanding ==
    IF hc.pc = "probing"
    THEN {hc.fetches[i] : i \in (Len(hc.probes) + 1)..Len(hc.fetches)}
    ELSE {}

\* The registered services no fetch was issued to yet in this call.
ProbesNotStarted ==
    IF hc.pc = "probing"
    THEN services \ {hc.fetches[i] : i \in DOMAIN hc.fetches}
    ELSE {}

C12_ProbesIndependent ==
    (ProbesOutstanding # {} /\ ProbesNotStarted # {}) => ENABLED HealthFetch

-----------------------------------------------------------------------------
(* The catch-all                                                           *)

\* The paths of the gateway's own endpoints.
OwnEndpointPaths ==
    { <<>>, <<"health">>, <<"health", "services">>, <<"auth", "test">>, <<"api", "info">> }

\* The path of the request in slot r is under no mount path of the route
\* table and is no endpoint of the gateway itself.
MatchesNothing(r) ==
    /\ \A i \in 1..Len(Routes(rev)) : ~StartsWith(req[r].path, Routes(rev)[i].mount)
    /\ NoTrailingSlash(req[r].path) \notin OwnEndpointPaths

\* C13: a request whose path is under no registered prefix and is no
\* endpoint of the gateway is answered 404 with a structured body, and no
\* outbound request is ever made for it.
C13_NotFound ==
    \A r \in DOMAIN req :
        (Dispatched(r) /\ MatchesNothing(r))
        => /\ AnsweredWith(r, 404)
           /\ {"error", "message", "timestamp"} \subseteq DOMAIN req[r].resp[1].body
           /\ req[r].resp[1].body.error = "Not Found"
           /\ req[r].out = <<>>
           /\ req[r].provider = 0

C13_Witness ==
    \E r \in DOMAIN req :
        /\ Dispatched(r)
        /\ req[r].path = <<"other_service", "api", "orders">>
        /\ req[r].method = "POST"
        /\ Authorization(r) = <<"Bearer", "tokAdminStaff">>
        /\ AnsweredWith(r, 404)

-----------------------------------------------------------------------------
(* Role checks                                                             *)

\* The set of roles a role check asks for.
RequiredRoleSet(roleCheck) ==
    IF roleCheck.check = "requireAdmin" THEN {"admin"}
    ELSE IF roleCheck.requiredRoles.isArray
    THEN {roleCheck.requiredRoles.items[i] : i \in DOMAIN roleCheck.requiredRoles.items}
    ELSE {roleCheck.requiredRoles.item}

\* The roles of the identity on the request in slot r.
IdentityRoles(r) ==
    IF "roles" \in DOMAIN req[r].user[1]
    THEN {req[r].user[1].roles[i] : i \in DOMAIN req[r].user[1].roles}
    ELSE {}

\* A role check has acted on the request in slot r.
RoleChecked(r) ==
    /\ "roleCheck" \in DOMAIN req[r]
    /\ req[r].pc # "roleCheck"

-----------------------------------------------------------------------------
(* Requests in flight at the same time                                     *)

\* The identity headers the token of the request in slot r stands for: the
\* claims of its own token when the provider accepts it, none otherwise.
OwnIdentityHeaders(r) ==
    LET h == Authorization(r)
    IN  IF WellFormedBearer(h) /\ h[2] \in ValidTokens
        THEN [k \in {"x-user-id", "x-user-email"} |->
                IF k = "x-user-id" THEN <<DecodedClaims(h[2]).uid>>
                ELSE <<DecodedClaims(h[2]).email>>]
        ELSE [k \in {"x-user-id", "x-user-email"} |-> <<>>]

\* C15: with several requests in flight at once, the identity on a request
\* and the identity headers of its outbound request come from that
\* request's own token only, whatever the interleaving.
C15_NoCrossRequestBleed ==
    \A r \in DOMAIN req :
        Dispatched(r)
        => /\ req[r].user # <<>> =>
                <<req[r].user[1].uid>> = OwnIdentityHeaders(r)["x-user-id"]
           /\ \A i \in DOMAIN req[r].out :
                \A k \in {"x-user-id", "x-user-email"} :
                    Header(req[r].out[i].headers, k) = OwnIdentityHeaders(r)[k]

\* Two requests await their backends at once, each with its own identity.
C15_Witness ==
    \E r, o \in DOMAIN req :
        /\ r # o
        /\ req[r].pc = "awaitBackend" /\ req[o].pc = "awaitBackend"
        /\ Header(req[r].out[1].headers, "x-user-id") = <<"u1">>
        /\ Header(req[o].out[1].headers, "x-user-id") = <<"u2">>

-----------------------------------------------------------------------------
(* Error bodies                                                            *)

\* C16: every error response the auth step or the router makes itself (401,
\* 403, 404) has a body with the three fields error, message and timestamp.
C16_StructuredErrorBody ==
    \A r \in DOMAIN req :
        (Dispatched(r) /\ req[r].outcome = "")
        => \A i \in DOMAIN req[r].resp :
            req[r].resp[i].status \in {401, 403, 404}
            => {"error", "message", "timestamp"} \subseteq DOMAIN req[r].resp[i].body

-----------------------------------------------------------------------------
(* The global error handler                                                *)

\* The error handler has answered the request in slot r.
ErrorHandled(r) ==
    /\ "thrown" \in DOMAIN req[r]
    /\ req[r].pc = "done"

\* C17: an exception that reaches the global error handler is answered 500
\* with a generic message: the response holds neither the message, nor the
\* name, nor the stack trace of the thrown error.
C17_NoErrorDetailLeak ==
    \A r \in DOMAIN req :
        ErrorHandled(r)
        => LET e == req[r].thrown.error
               b == req[r].resp[1].body
           IN  /\ req[r].resp[1].status = 500
               /\ "stack" \notin DOMAIN b
               /\ e.message # <<>> => b.message # e.message
               /\ e.name # "" => b.error # e.name

-----------------------------------------------------------------------------
(* Start-up                                                                *)

\* A route of the table names a service the registry has no entry (and so
\* no target) for.
RouteWithoutTarget ==
    \E i \in 1..Len(Routes(rev)) : Routes(rev)[i].service \notin services

\* C18: a route whose service has no target is fatal at start-up and never
\* an error of a request: the gateway does not come to listen, and no
\* request and no health check is ever taken.
C18_MissingTargetFatal ==
    RouteWithoutTarget
    => /\ phase # "listening"
       /\ \A r \in DOMAIN req : req[r].pc = "idle"
       /\ hc.pc = "idle"

C18_Witness ==
    /\ phase = "crashed"
    /\ "user" \notin services
    /\ \E i \in 1..Len(Routes(rev)) : Routes(rev)[i].service = "user"

-----------------------------------------------------------------------------
(* GET /ticket_service/health                                              *)

\* The request in slot r is GET /ticket_service/health.
TicketHealthRequest(r) ==
    /\ req[r].method = "GET"
    /\ req[r].path = <<"ticket_service", "health">>

-----------------------------------------------------------------------------
(* optionalAuth and a rejected token                                       *)

\* The headers that carry an identity to a backend.
IdentityHeaderNames == {"x-user-id", "x-user-email", "x-user-roles", "x-user-role"}

\* optionalAuth has had the provider's rejection of the token of the
\* request in slot r.
OptionalAuthRejected(r) ==
    /\ Dispatched(r)
    /\ req[r].mode = "optionalAuth"
    /\ req[r].pc # "awaitProvider"
    /\ ~VerifyIdToken(fbInitialized, req[r].token).ok

-----------------------------------------------------------------------------
(* Exception rules with a token                                            *)

\* The request in slot r carries a bearer token the provider accepts.
CarriesValidToken(r) ==
    /\ WellFormedBearer(Authorization(r))
    /\ Authorization(r)[2] \in ValidTokens
    /\ fbInitialized

\* C21: a request that an exception rule of a mandatory service covers is
\* handled as under optional auth: when it carries a valid bearer token the
\* provider verifies it, the identity is attached to the request and its
\* identity headers are on the outbound request.
C21_ExceptionAttachesIdentity ==
    \A r \in DOMAIN req :
        ( /\ Dispatched(r)
          /\ UnderProtectedPrefix(r)
          /\ CoveredByException(r)
          /\ CarriesValidToken(r)
          /\ req[r].pc \in {"proxy", "awaitBackend", "done"} )
        => /\ req[r].provider = 1
           /\ req[r].user # <<>>
           /\ \A i \in DOMAIN req[r].out :
                Header(req[r].out[i].headers, "x-user-id")
                    = <<DecodedClaims(Authorization(r)[2]).uid>>

-----------------------------------------------------------------------------
(* One rule of role resolution                                             *)

\* The rule: the scalar role claim if the token has one, else the first
\* element of its roles list, else no role.
ResolvedRole(decoded) ==
    IF "role" \in DOMAIN decoded THEN decoded.role
    ELSE IF "roles" \in DOMAIN decoded /\ decoded.roles # <<>> THEN decoded.roles[1]
    ELSE ""

\* C22: whichever middleware authenticated the request, verifyToken or
\* optionalAuth, the identity holds the role resolved by the one rule
\* (scalar role claim, else first of the roles list, else none), so both
\* build the same identity from the same decoded claims.
C22_OneRoleRule ==
    \A r \in DOMAIN req :
        (Dispatched(r) /\ req[r].user # <<>>)
        => LET decoded == DecodedClaims(req[r].token)
               user    == req[r].user[1]
           IN  /\ "role" \in DOMAIN user
               /\ user.role = ResolvedRole(decoded)
               /\ user = optionalAuthResume(req[r], [ok |-> TRUE, decoded |-> decoded]).user[1]
               /\ user = verifyTokenResume(req[r], [ok |-> TRUE, decoded |-> decoded]).user[1]

-----------------------------------------------------------------------------
(* extractToken                                                            *)

\* Exactly two space-separated segments, the first exactly 'Bearer'.
TwoSegmentBearer(h) == Len(h) = 2 /\ h[1] = "Bearer"

\* C23: extractToken returns a token exactly for a header of two segments
\* whose first is 'Bearer', and then the second segment; for any other
\* header it returns what it returns for an absent one, and the provider is
\* only ever called with the whole second segment of such a header.
C23_ExtractToken ==
    \A r \in DOMAIN req :
        req[r].pc # "idle"
        => LET h == Authorization(r)
           IN  /\ ExtractToken(h) # ExtractToken(<<>>) <=> TwoSegmentBearer(h)
               /\ TwoSegmentBearer(h) => ExtractToken(h) = h[2]
               /\ req[r].provider > 0 =>
                    /\ TwoSegmentBearer(h)
                    /\ req[r].token = h[2]
                    /\ h[2] # ""
               /\ (Dispatched(r) /\ ~TwoSegmentBearer(h)) =>
                    /\ req[r].provider = 0
                    /\ req[r].user = <<>>

C23_Witness ==
    \E r \in DOMAIN req :
        /\ Dispatched(r)
        /\ Authorization(r) = <<"Bearer", "tokPlain", "x">>
        /\ req[r].path = <<"notifi_service", "api", "orders">>
        /\ AnsweredWith(r, 401)
        /\ req[r].provider = 0

-----------------------------------------------------------------------------
(* Overlapping prefixes                                                    *)

\* The routes whose mount path is a prefix of the path of the request in
\* slot r.
MatchingRoutes(r) ==
    {j \in 1..Len(Routes(rev)) : StartsWith(req[r].path, Routes(rev)[j].mount)}

\* C24: a request is handled by the route of the longest registered prefix
\* of its path: where /event_service/public or /ticket_service/public is
\* registered, a request under it goes to that sub-route's service without
\* any auth step, and never to the /event_service or /ticket_service route
\* that asks for a token.
C24_LongestPrefix ==
    \A r \in DOMAIN req :
        (Dispatched(r) /\ MatchingRoutes(r) # {})
        => /\ req[r].kind = "proxy"
           /\ req[r].route \in MatchingRoutes(r)
           /\ \A j \in MatchingRoutes(r) :
                Len(Routes(rev)[j].mount) <= Len(Routes(rev)[req[r].route].mount)
           /\ Len(PublicMount(r)) = 2 =>
                /\ AtProxyOf(r, PublicService(PublicMount(r)))
                /\ req[r].provider = 0

C24_Witness ==
    \E r \in DOMAIN req :
        /\ Dispatched(r)
        /\ Cardinality(MatchingRoutes(r)) = 2
        /\ req[r].path = <<"ticket_service", "public", "api", "events">>
        /\ req[r].method = "POST"
        /\ Authorization(r) = <<>>
        /\ req[r].pc = "awaitBackend"
        /\ req[r].out[1].service = "ticket_public"

-----------------------------------------------------------------------------
(* Exception rules of another service                                      *)

\* Some pattern of the list matches the path.
SomePatternTest(patterns, path) ==
    \E i \in 1..Len(patterns) : PatternTest(patterns[i], path)

\* The path of the request in slot r, below the mount path of the service,
\* matches an exception pattern of the other service only.
OnlyOtherServicesPattern(r) ==
    LET q == req[r]
    IN  \/ /\ StartsWith(q.path, <<"ticket_service">>)
           /\ SomePatternTest(publicGetPatterns, Tail(q.path))
           /\ ~SomePatternTest(publicGetPatternsTicket, Tail(q.path))
        \/ /\ StartsWith(q.path, <<"event_service">>)
           /\ SomePatternTest(publicGetPatternsTicket, Tail(q.path))
           /\ ~SomePatternTest(publicGetPatterns, Tail(q.path))

\* C25: an exception pattern belongs to its service: a path that only a
\* pattern of the event service matches is not public under /ticket_service,
\* nor the other way round, and a request without a token there is answered
\* 401 and not forwarded.
C25_ExceptionsScoped ==
    \A r \in DOMAIN req :
        ( /\ Dispatched(r)
          /\ rev = "R2"
          /\ OnlyOtherServicesPattern(r)
          /\ ~WellFormedBearer(Authorization(r)) )
        => /\ AnsweredWith(r, 401)
           /\ req[r].out = <<>>
           /\ req[r].nexts = 0

C25_Witness ==
    \E r \in DOMAIN req :
        /\ Dispatched(r)
        /\ rev = "R2"
        /\ req[r].method = "GET"
        /\ req[r].path = <<"ticket_service", "api", "events">>
        /\ Authorization(r) = <<>>
        /\ AnsweredWith(r, 401)

-----------------------------------------------------------------------------
(* Calls of the identity provider                                          *)

\* The request in slot r has entered verifyToken or optionalAuth: it is for
\* GET /auth/test, or for a route that mounts one of them, or for a route
\* with exceptions that it does not fall under.
ThroughAuthMiddleware(r) ==
    \/ req[r].kind = "authTest"
    \/ /\ req[r].kind = "proxy"
       /\ LET auth == Routes(rev)[req[r].route].auth
          IN  \/ auth \in {"verifyToken", "optionalAuth"}
              \/ /\ auth \in {"conditionalAuth", "conditionalAuthTicket"}
                 /\ ~CoveredByException(r)

-----------------------------------------------------------------------------
(* Headers the gateway adds                                                *)

\* C27: the gateway puts the identity headers (user id, email, roles) on an
\* outbound request exactly when an identity was produced for the request:
\* with an identity they hold its values, without one the gateway adds none
\* to what the client sent.  The forwarded host, the gateway's service name
\* and its timestamp are on every outbound request.
C27_IdentityHeadersIffIdentity ==
    \A r \in DOMAIN req :
        Dispatched(r)
        => \A i \in DOMAIN req[r].out :
            LET h == req[r].out[i].headers
            IN  /\ Header(h, "x-forwarded-host") = Header(req[r].headers, "host")
                /\ Header(h, "x-forwarded-host") # <<>>
                /\ Header(h, "x-gateway-service") = <<req[r].out[i].service>>
                /\ Header(h, "x-gateway-timestamp") # <<>>
                /\ IF req[r].user # <<>>
                   THEN /\ Header(h, "x-user-id") = <<req[r].user[1].uid>>
                        /\ Header(h, "x-user-email") = <<req[r].user[1].email>>
                        /\ Header(h, "x-user-roles") # <<>>
                   ELSE \A k \in IdentityHeaderNames :
                            Header(h, k) = Header(req[r].headers, k)

C27_Witness ==
    \E r \in DOMAIN req :
        /\ Dispatched(r)
        /\ req[r].pc = "awaitBackend"
        /\ req[r].path = <<"public", "api", "events">>
        /\ req[r].user # <<>>
        /\ Header(req[r].out[1].headers, "x-user-email") = <<"org@nexticket">>
        /\ Header(req[r].out[1].headers, "x-gateway-service") = <<"public">>

\* C28: a backend never sees identity headers that the client chose: the
\* outbound request of a request forwarded without an identity has no user
\* id, email or role header, whatever headers the inbound request had.
C28_NoClientIdentityHeaders ==
    \A r \in DOMAIN req :
        (Dispatched(r) /\ req[r].user = <<>>)
        => \A i \in DOMAIN req[r].out, k \in IdentityHeaderNames :
                Header(req[r].out[i].headers, k) = <<>>

-----------------------------------------------------------------------------
(* One outcome per auth middleware                                         *)

\* The request in slot r is handled by a route with an auth middleware, or
\* by GET /auth/test.
HasAuthMiddleware(r) ==
    /\ "roleCheck" \notin DOMAIN req[r]
    /\ \/ req[r].kind = "authTest"
       \/ req[r].kind = "proxy" /\ Routes(rev)[req[r].route].auth # "none"

\* C29: an auth middleware (verifyToken, optionalAuth, conditionalAuth,
\* requireRoles, requireAdmin) gives a request one outcome: it sends one
\* rejection and never calls next(), or it calls next() once and sends no
\* response itself; while it awaits the provider it has done neither.
C29_ExactlyOneOutcome ==
    \A r \in DOMAIN req :
        /\ (Dispatched(r) /\ HasAuthMiddleware(r)) =>
              /\ req[r].nexts <= 1
              /\ Len(req[r].resp) <= 1
              /\ req[r].pc = "awaitProvider" => req[r].nexts = 0 /\ req[r].resp = <<>>
              /\ req[r].pc # "awaitProvider" =>
                    IF req[r].nexts = 1
                    THEN req[r].resp # <<>> =>
                            (req[r].outcome # "" \/ req[r].kind = "authTest")
                    ELSE /\ AnsweredWith(r, 401)
                         /\ req[r].outcome = ""
                         /\ req[r].out = <<>>
        /\ ("roleCheck" \in DOMAIN req[r]) =>
              CASE req[r].pc = "roleCheck" -> req[r].nexts = 0 /\ req[r].resp = <<>>
                [] req[r].pc = "handler"   -> req[r].nexts = 1 /\ req[r].resp = <<>>
                [] OTHER -> /\ req[r].nexts = 0
                            /\ Len(req[r].resp) = 1
                            /\ req[r].resp[1].status \in {401, 403}

\* A rejection by a role check and nothing else.
C29_Witness ==
    \E r \in DOMAIN req :
        /\ RoleChecked(r)
        /\ req[r].roleCheck.check = "requireAdmin"
        /\ req[r].user # <<>>
        /\ AnsweredWith(r, 403)
        /\ req[r].nexts = 0

-----------------------------------------------------------------------------
(* The identity provider not initialized                                   *)

\* C30: when the identity provider could not be initialized the gateway
\* listens all the same and fails closed: a request that needs a token is
\* answered 401, whatever token it has, and is never forwarded; a request
\* to a public prefix, with or without a token, is forwarded with no
\* identity.
C30_FailClosed ==
    (phase = "listening" /\ ~fbInitialized)
    => \A r \in DOMAIN req :
        Dispatched(r)
        => /\ req[r].user = <<>>
           /\ (UnderProtectedPrefix(r) /\ ~CoveredByException(r)) =>
                /\ req[r].out = <<>>
                /\ req[r].nexts = 0
                /\ req[r].pc = "awaitProvider" \/ AnsweredWith(r, 401)
           /\ PublicMount(r) # <<>> =>
                \/ req[r].pc = "awaitProvider"
                \/ /\ AtProxyOf(r, PublicService(PublicMount(r)))
                   /\ \A i \in DOMAIN req[r].out :
                        Header(req[r].out[i].headers, "x-user-email") = <<>>

C30_Witness ==
    \E r \in DOMAIN req :
        /\ phase = "listening"
        /\ ~fbInitialized
        /\ Dispatched(r)
        /\ req[r].path = <<"notifi_service", "api", "orders">>
        /\ Authorization(r) = <<"Bearer", "tokAdminStaff">>
        /\ AnsweredWith(r, 401)
        /\ req[r].provider = 1

=============================================================================
